---- MODULE Spec2Model ----
(***************************************************************************)
(* A model of the control-surface engine of the Universal Controller       *)
(* Script: ControlSurface (control_surfaces/controls/control_surface.py)   *)
(* and the note matchers (devices/control_generators/notes.py).            *)
(*                                                                         *)
(* Numbers.  A control value is a float in [0,1]; the model writes it as   *)
(* its numerator over MaxData2, so value n stands for n / MaxData2 and the *)
(* range [0,1] is 0..MaxData2.  Times are in tenths of a second.           *)
(***************************************************************************)
EXTENDS Integers, Sequences, FiniteSets

(***************************************************************************)
(* Bounds of the model.                                                    *)
(***************************************************************************)
\* Largest data2 byte of a raw event (127 on the wire).
MaxData2 == 2
\* Largest reading of the clock, in tenths of a second.
MaxTime == 4
\* Size of a matcher's pool (128 in notes.py) and of the data1 range.
NumNotes == 2
\* Largest reading of the clock in the matcher specification.
MaxPoolTime == 1

(***************************************************************************)
(* Value domains.                                                          *)
(***************************************************************************)
\* Status bytes of the events fed to a surface: note on ch 5 (0x95), note on
\* ch 15 (0x9F), control change ch 0 (0xB0).
StatusBytes == {149, 159, 176}
Colors == {"Color()", "red"}
Annotations == {"", "Volume"}
\* Floats handed to the value setter: -1/MaxData2 .. (MaxData2+1)/MaxData2.
ValueInputs == -1 .. MaxData2 + 1
Times == 0 .. MaxTime
PoolTimes == 0 .. MaxPoolTime
Notes == 0 .. NumNotes - 1

\* A raw event: standard (status, data1, data2) or not (sysex).
EventData(standard, status, data1, data2) ==
    [standard |-> standard, status |-> status, data1 |-> data1, data2 |-> data2]

Events ==
    {EventData(TRUE, st, d1, d2) : st \in StatusBytes, d1 \in Notes, d2 \in 0 .. MaxData2}

isEventStandard(event) == event.standard

(***************************************************************************)
(* Event patterns and value strategies (pure).                             *)
(***************************************************************************)
\* One field of a BasicPattern: a wildcard (...), an exact byte, or
\* fromNibbles(hi, ...), any byte whose high nibble is in hi.
Wildcard == [kind |-> "any", val |-> 0, hi |-> {}]
Exact(b) == [kind |-> "exact", val |-> b, hi |-> {}]
fromNibbles(hi) == [kind |-> "nibbles", val |-> 0, hi |-> hi]
Never == [kind |-> "never", val |-> 0, hi |-> {}]

fieldMatch(m, b) ==
    CASE m.kind = "any" -> TRUE
      [] m.kind = "exact" -> b = m.val
      [] m.kind = "nibbles" -> (b \div 16) \in m.hi
      [] OTHER -> FALSE

\* BasicPattern(status, data1, data2)
BasicPattern(status, data1, data2) ==
    [status |-> status, data1 |-> data1, data2 |-> data2]

\* NullPattern: matches nothing.
NullPattern == BasicPattern(Never, Never, Never)

\* IEventPattern.matchEvent
patternMatchEvent(pattern, event) ==
    /\ isEventStandard(event)
    /\ fieldMatch(pattern.status, event.status)
    /\ fieldMatch(pattern.data1, event.data1)
    /\ fieldMatch(pattern.data2, event.data2)

\* The pattern of Note(i) and of NoteAfterTouch(i).
NotePattern(i) == BasicPattern(fromNibbles({8, 9}), Exact(i), Wildcard)
NoteAfterTouchPattern(i) == BasicPattern(fromNibbles({10}), Exact(i), Wildcard)

\* IValueStrategy.getValueFromEvent(event, value): data2 / 127, written as
\* the numerator over MaxData2.
getValueFromEvent(event, value) == event.data2

\* IValueStrategy.getChannelFromEvent(event): low nibble of the status byte.
\* A strategy reading the channel from the high nibble of the status byte.
getChannelFromEvent_high_nibble(event) == event.status \div 16

getChannelFromEvent(event) == event.status % 16

\* settings.get("controls.double_press_time"), in tenths of a second.
double_press_time == 3

(***************************************************************************)
(* ControlSurface                                                          *)
(***************************************************************************)
\* The kinds of surface: the base class, and a subclass whose isPress
\* always returns true.
Kinds == {"base", "press"}

\* ControlSurface.__init__
\* A constructor leaving the three dirty flags clear.
ControlSurface_clean_flags(id, event_pattern, kind) ==
    [id |-> id, pattern |-> event_pattern, kind |-> kind,
     color |-> "Color()", annotation |-> "", value |-> 0,
     needs_update |-> FALSE, got_update |-> FALSE,
     color_changed |-> FALSE, annotation_changed |-> FALSE, value_changed |-> FALSE,
     press |-> 0, tweak |-> 0]

ControlSurface(id, event_pattern, kind) ==
    [id |-> id, pattern |-> event_pattern, kind |-> kind,
     color |-> "Color()", annotation |-> "", value |-> 0,
     needs_update |-> FALSE, got_update |-> FALSE,
     color_changed |-> TRUE, annotation_changed |-> TRUE, value_changed |-> TRUE,
     press |-> 0, tweak |-> 0]

\* ControlSurface.isPress (base class)
isPress(value) == FALSE

\* isPress as overridden by the surface's class.
isPressOf(kind, value) == IF kind = "base" THEN isPress(value) ELSE TRUE

\* Optional[ControlEvent]
None == [some |-> FALSE]
ControlEvent(control, value, channel, double_press) ==
    [some |-> TRUE, control |-> control, value |-> value,
     channel |-> channel, double_press |-> double_press]

\* match with the update flag raised before the pattern is tried.
match_flag_before_test(self, event, t) ==
    IF patternMatchEvent(self.pattern, event)
    THEN LET v == getValueFromEvent(event, self.value)
             s1 == [self EXCEPT !.value = v, !.needs_update = TRUE,
                                !.got_update = FALSE, !.tweak = t]
         IN [self |-> IF isPressOf(self.kind, v) THEN [s1 EXCEPT !.press = t] ELSE s1,
             ret |-> ControlEvent(self.id, v, getChannelFromEvent(event),
                                  isPressOf(self.kind, v)
                                  /\ t - self.press <= double_press_time)]
    ELSE [self |-> [self EXCEPT !.needs_update = TRUE], ret |-> None]

\* match with the double-press window compared by < instead of <=.
match_strict_window(self, event, t) ==
    IF patternMatchEvent(self.pattern, event)
    THEN LET v == getValueFromEvent(event, self.value)
             s1 == [self EXCEPT !.value = v, !.needs_update = TRUE,
                                !.got_update = FALSE, !.tweak = t]
         IN [self |-> IF isPressOf(self.kind, v) THEN [s1 EXCEPT !.press = t] ELSE s1,
             ret |-> ControlEvent(self.id, v, getChannelFromEvent(event),
                                  isPressOf(self.kind, v)
                                  /\ t - self.press < double_press_time)]
    ELSE [self |-> self, ret |-> None]

\* match building its event from the value before the update.
match_returns_old_value(self, event, t) ==
    IF patternMatchEvent(self.pattern, event)
    THEN LET v == getValueFromEvent(event, self.value)
             s1 == [self EXCEPT !.value = v, !.needs_update = TRUE,
                                !.got_update = FALSE, !.tweak = t]
         IN [self |-> IF isPressOf(self.kind, v) THEN [s1 EXCEPT !.press = t] ELSE s1,
             ret |-> ControlEvent(self.id, self.value, getChannelFromEvent(event),
                                  isPressOf(self.kind, v)
                                  /\ t - self.press <= double_press_time)]
    ELSE [self |-> self, ret |-> None]

\* The annotation setter acknowledging the update as the color setter does.
set_annotation_acknowledges(self, a) ==
    IF self.annotation # a
    THEN [self EXCEPT !.got_update = TRUE, !.annotation = a,
                      !.annotation_changed = TRUE]
    ELSE [self EXCEPT !.got_update = TRUE]

\* ControlSurface.match(event), t being the reading of time().
match(self, event, t) ==
    IF patternMatchEvent(self.pattern, event)
    THEN LET v == getValueFromEvent(event, self.value)
             channel == getChannelFromEvent(event)
             s1 == [self EXCEPT !.value = v, !.needs_update = TRUE,
                                !.got_update = FALSE, !.tweak = t]
         IN IF isPressOf(self.kind, v)
            THEN [self |-> [s1 EXCEPT !.press = t],
                  ret |-> ControlEvent(self.id, v, channel,
                                       t - self.press <= double_press_time)]
            ELSE [self |-> s1,
                  ret |-> ControlEvent(self.id, v, channel, FALSE)]
    ELSE [self |-> self, ret |-> None]

\* The color setter with the dirty flag assigned from the comparison.
set_color_flag_from_compare(self, c) ==
    [self EXCEPT !.got_update = TRUE, !.color = c,
                 !.color_changed = (self.color # c)]

\* The color setter clearing needs_update itself.
set_color_clears_needs_update(self, c) ==
    LET s1 == [self EXCEPT !.got_update = TRUE, !.needs_update = FALSE]
    IN IF self.color # c
       THEN [s1 EXCEPT !.color = c, !.color_changed = TRUE]
       ELSE s1

\* ControlSurface.color (setter)
set_color(self, c) ==
    LET s1 == [self EXCEPT !.got_update = TRUE]
    IN IF self.color # c
       THEN [s1 EXCEPT !.color = c, !.color_changed = TRUE]
       ELSE s1

\* ControlSurface.annotation (setter)
set_annotation(self, a) ==
    IF self.annotation # a
    THEN [self EXCEPT !.annotation = a, !.annotation_changed = TRUE]
    ELSE self

\* The value setter validating after it has assigned.
set_value_assign_first(self, val) ==
    [self |-> IF self.value # val
              THEN [self EXCEPT !.value = val, !.needs_update = TRUE,
                                !.got_update = FALSE, !.value_changed = TRUE]
              ELSE self,
     error |-> ~(0 <= val /\ val <= MaxData2)]

\* The value setter without its bounds check.
set_value_unchecked(self, val) ==
    [self |-> IF self.value # val
              THEN [self EXCEPT !.value = val, !.needs_update = TRUE,
                                !.got_update = FALSE, !.value_changed = TRUE]
              ELSE self,
     error |-> FALSE]

\* ControlSurface.value (setter); error is the ValueError.
set_value(self, val) ==
    IF ~(0 <= val /\ val <= MaxData2)
    THEN [self |-> self, error |-> TRUE]
    ELSE IF self.value # val
         THEN [self |-> [self EXCEPT !.value = val, !.needs_update = TRUE,
                                     !.got_update = FALSE, !.value_changed = TRUE],
               error |-> FALSE]
         ELSE [self |-> self, error |-> FALSE]

\* One callback invocation.
Call(name, arg) == <<name, arg>>

\* doTick firing the change callbacks on a thorough tick only.
doTick_thorough_only(self, thorough) ==
    [self |-> IF self.got_update
              THEN [self EXCEPT !.needs_update = FALSE, !.got_update = FALSE]
              ELSE self,
     fired |-> (IF thorough
                THEN <<Call("onColorChange", self.color),
                       Call("onAnnotationChange", self.annotation),
                       Call("onValueChange", self.value)>>
                ELSE <<>>) \o <<Call("tick", "")>>]

\* doTick clearing needs_update and got_update on every tick.
doTick_always_clear(self, thorough) ==
    [self |-> [self EXCEPT !.needs_update = FALSE, !.got_update = FALSE],
     fired |-> (IF thorough \/ self.color_changed
                THEN <<Call("onColorChange", self.color)>> ELSE <<>>)
               \o (IF thorough \/ self.annotation_changed
                   THEN <<Call("onAnnotationChange", self.annotation)>> ELSE <<>>)
               \o (IF thorough \/ self.value_changed
                   THEN <<Call("onValueChange", self.value)>> ELSE <<>>)
               \o <<Call("tick", "")>>]

\* ControlSurface.doTick(thorough): the surface afterwards and the callbacks
\* invoked, in order.
doTick(self, thorough) ==
    LET c1 == IF thorough \/ self.color_changed
              THEN <<Call("onColorChange", self.color)>> ELSE <<>>
        c2 == IF thorough \/ self.annotation_changed
              THEN <<Call("onAnnotationChange", self.annotation)>> ELSE <<>>
        c3 == IF thorough \/ self.value_changed
              THEN <<Call("onValueChange", self.value)>> ELSE <<>>
        c4 == <<Call("tick", "")>>
    IN [self |-> IF self.got_update
                 THEN [self EXCEPT !.needs_update = FALSE, !.got_update = FALSE]
                 ELSE self,
        fired |-> c1 \o c2 \o c3 \o c4]

(***************************************************************************)
(* NoteMatcher and NoteAfterTouchMatcher                                   *)
(***************************************************************************)
\* NoteMatcher.__init__: the pool _notes and the coarse _note_pattern.
NoteMatcher ==
    [class |-> "NoteMatcher",
     pool |-> [i \in Notes |-> ControlSurface(i, NotePattern(i), "base")],
     pattern |-> BasicPattern(fromNibbles({8, 9}), Wildcard, Wildcard)]

\* NoteAfterTouchMatcher.__init__: the pool _touches and _touch_pattern.
NoteAfterTouchMatcher ==
    [class |-> "NoteAfterTouchMatcher",
     pool |-> [i \in Notes |-> ControlSurface(i, NoteAfterTouchPattern(i), "base")],
     pattern |-> BasicPattern(fromNibbles({10}), Wildcard, Wildcard)]

\* matchEvent trying every surface of the pool in turn.
NoteMatcher_matchEvent_scan(self, event, t) ==
    IF isEventStandard(event) /\ patternMatchEvent(self.pattern, event)
    THEN [self |-> [self EXCEPT !.pool =
                       [i \in Notes |-> match(self.pool[i], event, t).self]],
          ret |-> match(self.pool[event.data1], event, t).ret,
          called |-> Notes]
    ELSE [self |-> self, ret |-> None, called |-> {}]

\* NoteMatcher.matchEvent(event): the matcher afterwards, the result, and
\* the pool indices whose match was called.
NoteMatcher_matchEvent(self, event, t) ==
    IF isEventStandard(event) /\ patternMatchEvent(self.pattern, event)
    THEN LET note == event.data1
             r == match(self.pool[note], event, t)
         IN [self |-> [self EXCEPT !.pool[note] = r.self],
             ret |-> r.ret, called |-> {note}]
    ELSE [self |-> self, ret |-> None, called |-> {}]

\* matchEvent without the coarse pattern in front of the pool.
NoteAfterTouchMatcher_matchEvent_unfiltered(self, event, t) ==
    IF isEventStandard(event)
    THEN LET note == event.data1
             r == match(self.pool[note], event, t)
         IN [self |-> [self EXCEPT !.pool[note] = r.self],
             ret |-> r.ret, called |-> {note}]
    ELSE [self |-> self, ret |-> None, called |-> {}]

\* NoteAfterTouchMatcher.matchEvent(event)
NoteAfterTouchMatcher_matchEvent(self, event, t) ==
    IF isEventStandard(event) /\ patternMatchEvent(self.pattern, event)
    THEN LET note == event.data1
             r == match(self.pool[note], event, t)
         IN [self |-> [self EXCEPT !.pool[note] = r.self],
             ret |-> r.ret, called |-> {note}]
    ELSE [self |-> self, ret |-> None, called |-> {}]

\* IControlMatcher.matchEvent, by the matcher's class.
matchEvent(self, event, t) ==
    IF self.class = "NoteMatcher"
    THEN NoteMatcher_matchEvent(self, event, t)
    ELSE NoteAfterTouchMatcher_matchEvent(self, event, t)

\* NoteMatcher.tick and NoteAfterTouchMatcher.tick: the matcher afterwards
\* and the pool indices whose doTick was called, in order.
matcher_tick(self, thorough) == [self |-> self, ticked |-> <<>>]

(***************************************************************************)
(* The device context (common/contextmanager.py)                           *)
(***************************************************************************)
\* DeviceContextManager.__init__: instance number k, with its own Settings().
DeviceContextManager(k) == [instance |-> k, settings |-> k]

\* _context = None
NoContext == [instance |-> 0, settings |-> 0]

\* DeviceContextManager.processEvent(event): the context afterwards and the
\* matchers whose matchEvent was called, in order.
processEvent(self, event) == [self |-> self, tried |-> <<>>]

\* The wrapper catching every exception.
catchContextResetException_bare_except(raised) ==
    [returned |-> TRUE, raised |-> "none"]

\* wrapper of catchContextResetException, func having ended with the
\* exception raised ("none": it returned).
catchContextResetException(raised) ==
    IF raised = "ContextResetException"
    THEN [returned |-> TRUE, raised |-> "none"]
    ELSE [returned |-> raised = "none", raised |-> raised]

\* getContext()
getContext(ctx) ==
    IF ctx = NoContext
    THEN [error |-> TRUE, ret |-> NoContext]
    ELSE [error |-> FALSE, ret |-> ctx]

\* resetContext returning to its caller instead of raising.
resetContext_no_raise(ctx, n) ==
    [context |-> DeviceContextManager(n + 1), made |-> n + 1, raised |-> "none"]

\* resetContext raising before it has replaced the context.
resetContext_raise_first(ctx, n) ==
    [context |-> ctx, made |-> n, raised |-> "ContextResetException"]

\* resetContext(reason), n instances having been constructed: the global
\* afterwards and what is raised.
resetContext(ctx, n) ==
    [context |-> DeviceContextManager(n + 1), made |-> n + 1,
     raised |-> "ContextResetException"]

\* _initContext leaving the global as it is.
initContext_skipped(ctx, n) == [context |-> ctx, made |-> n]

\* _initContext()
initContext(ctx, n) == [context |-> DeviceContextManager(n + 1), made |-> n + 1]

(***************************************************************************)
(* State: one control surface and its driver, one matcher and its driver,  *)
(* the global device context and its driver, one channel extraction.       *)
(***************************************************************************)
VARIABLES
    s,          \* the control surface
    clock,      \* the latest reading of time()
    pre,        \* the surface before the latest operation
    last,       \* the latest operation, its arguments and its result
    fired,      \* the callbacks the latest doTick invoked
    prevPress,  \* history: time of the latest matched press, -1 if none
    m,          \* the matcher
    mpre,       \* the matcher before the latest operation
    mlast,      \* the latest operation on the matcher
    context,    \* the module global _context
    made,       \* how many DeviceContextManager instances were constructed
    pc,         \* where the driver is: loading, idle, running, raising
    depth,      \* depth of the call stack below the wrapper
    exc,        \* the exception in flight
    call,       \* history of the current (or latest) wrapped call
    clast,      \* the latest operation on the context
    seen,       \* instance the latest getContext returned, 0 after a reset
    cin,        \* the event a channel was extracted from
    cout        \* the channel extracted

surfvars == <<s, clock, pre, last, fired, prevPress>>
poolvars == <<m, mpre, mlast>>
ctxvars == <<context, made, pc, depth, exc, call, clast, seen>>
chanvars == <<cin, cout>>
vars == <<surfvars, poolvars, ctxvars, chanvars>>

NoEvent == EventData(FALSE, 0, 0, 0)

\* A record of one operation on the surface: its name, its arguments, its
\* result (ret, error), the history prevPress before it, and, for a doTick,
\* whether the operation before it was a doTick, and its name if it was an
\* annotation assignment.
Op(op, event, t, c, a, val, thorough, ret, error, prev, after_tick, after) ==
    [op |-> op, event |-> event, t |-> t, c |-> c, a |-> a, val |-> val,
     thorough |-> thorough, ret |-> ret, error |-> error, prev |-> prev,
     after_tick |-> after_tick, after |-> after]

NoOp == Op("init", NoEvent, 0, "", "", 0, FALSE, None, FALSE, -1, FALSE, "")

MatcherOp(op, event, t, thorough, ret, called, ticked) ==
    [op |-> op, event |-> event, t |-> t, thorough |-> thorough, ret |-> ret,
     called |-> called, ticked |-> ticked]

NoMatcherOp == MatcherOp("init", NoEvent, 0, FALSE, None, {}, <<>>)

InitSurface(kinds) ==
    /\ \E kind \in kinds : s = ControlSurface(0, NotePattern(0), kind)
    /\ clock = 0
    /\ pre = s
    /\ last = NoOp
    /\ fired = <<>>
    /\ prevPress = -1

InitPool(matchers) ==
    /\ m \in matchers
    /\ mpre = m
    /\ mlast = NoMatcherOp

\* One wrapped call: the context when it began, whether and at which depth
\* it reset the context, the steps it ran, those it ran after the reset, and
\* how the wrapper ended (none, returned, raised).
Call0 ==
    [start |-> NoContext, reset |-> FALSE, resetDepth |-> 0, steps |-> 0,
     stepsAfter |-> 0, outcome |-> "none", propagated |-> "none"]

\* A record of one operation on the context.
NoContextOp ==
    [op |-> "init", before |-> NoContext, ret |-> NoContext, error |-> FALSE,
     raised |-> "none", event |-> NoEvent, tried |-> <<>>, seen |-> 0]

\* The module as its import begins: _context = None.
InitContext ==
    /\ context = NoContext
    /\ made = 0
    /\ pc = "loading"
    /\ depth = 0
    /\ exc = "none"
    /\ call = Call0
    /\ clast = NoContextOp
    /\ seen = 0

InitChannel ==
    /\ cin = NoEvent
    /\ cout = 0

Init ==
    InitSurface(Kinds) /\ InitPool({NoteMatcher}) /\ InitContext /\ InitChannel

\* s.match(event) with time() reading t.
Match(event, t) ==
    LET r == match(s, event, t)
    IN /\ s' = r.self
       /\ clock' = IF patternMatchEvent(s.pattern, event) THEN t ELSE clock
       /\ pre' = s
       /\ last' = [NoOp EXCEPT !.op = "match", !.event = event, !.t = t,
                               !.ret = r.ret, !.prev = prevPress]
       /\ prevPress' = IF r.ret.some /\ isPressOf(s.kind, r.ret.value)
                       THEN t ELSE prevPress
       /\ fired' = <<>>
       /\ UNCHANGED <<poolvars, ctxvars, chanvars>>

\* s.color = c
SetColor(c) ==
    /\ s' = set_color(s, c)
    /\ pre' = s
    /\ last' = [NoOp EXCEPT !.op = "set_color", !.c = c]
    /\ fired' = <<>>
    /\ UNCHANGED <<clock, prevPress, poolvars, ctxvars, chanvars>>

\* s.annotation = a
SetAnnotation(a) ==
    /\ s' = set_annotation(s, a)
    /\ pre' = s
    /\ last' = [NoOp EXCEPT !.op = "set_annotation", !.a = a]
    /\ fired' = <<>>
    /\ UNCHANGED <<clock, prevPress, poolvars, ctxvars, chanvars>>

\* s.value = val
SetValue(val) ==
    LET r == set_value(s, val)
    IN /\ s' = r.self
       /\ pre' = s
       /\ last' = [NoOp EXCEPT !.op = "set_value", !.val = val, !.error = r.error]
       /\ fired' = <<>>
       /\ UNCHANGED <<clock, prevPress, poolvars, ctxvars, chanvars>>

\* s.doTick(thorough)
DoTick(thorough) ==
    LET r == doTick(s, thorough)
    IN /\ s' = r.self
       /\ pre' = s
       /\ last' = [NoOp EXCEPT !.op = "doTick", !.thorough = thorough,
                               !.after_tick = (last.op = "doTick"),
                               !.after = IF last.op = "set_annotation"
                                         THEN last.op ELSE ""]
       /\ fired' = r.fired
       /\ UNCHANGED <<clock, prevPress, poolvars, ctxvars, chanvars>>

Next ==
    \/ \E event \in Events, t \in Times :
          \* time() never runs backwards, and a miss does not read it
          /\ t >= clock
          /\ patternMatchEvent(s.pattern, event) \/ t = clock
          /\ Match(event, t)
    \/ \E c \in Colors : SetColor(c)
    \/ \E a \in Annotations : SetAnnotation(a)
    \/ \E val \in ValueInputs : SetValue(val)
    \/ \E thorough \in BOOLEAN : DoTick(thorough)

Spec == Init /\ [][Next]_vars


(***************************************************************************)
(* Properties of ControlSurface, checked under Spec.                       *)
(***************************************************************************)
InRange(val) == 0 <= val /\ val <= MaxData2

\* C1: a match whose pattern rejects the event returns no event and leaves
\* every field of the surface as it was; a match whose pattern accepts the
\* event returns an event and writes the surface: the value the strategy
\* gives, needs_update, got_update and the last-tweak time.
C1_MatchWritesIffPatternMatches ==
    last.op = "match" =>
        IF patternMatchEvent(pre.pattern, last.event)
        THEN /\ last.ret.some
             /\ s.value = getValueFromEvent(last.event, pre.value)
             /\ s.needs_update
             /\ ~s.got_update
             /\ s.tweak = last.t
        ELSE /\ ~last.ret.some
             /\ s = pre

\* A rejected event on a surface that holds a value and a pending update.
C1_Witness ==
    /\ last.op = "match"
    /\ ~patternMatchEvent(pre.pattern, last.event)
    /\ pre.value > 0
    /\ pre.needs_update
    /\ pre.color # "Color()"

\* C2: assigning a value outside [0,1] raises the validation error and
\* leaves the whole surface as it was.
C2_OutOfRangeValueRejected ==
    last.op = "set_value" /\ ~InRange(last.val) => last.error /\ s = pre

\* 1.5 assigned to a surface whose value is 1.0 and which has been
\* acknowledged.
C2_Witness ==
    /\ last.op = "set_value"
    /\ last.val = MaxData2 + 1
    /\ last.error
    /\ s.value = MaxData2
    /\ s.got_update

JustTick == <<Call("tick", "")>>

\* C4: a doTick clears the dirty flags whose callbacks it delivers, so a
\* non-thorough doTick that directly follows a doTick fires no change
\* callback.
C4_SecondTickFiresNothing ==
    last.op = "doTick" /\ last.after_tick /\ ~last.thorough => fired = JustTick

DirtyFlags(x) == <<x.color_changed, x.annotation_changed, x.value_changed>>

\* C5: assigning color, annotation or value a value equal to the current one
\* leaves the three dirty flags as they were; assigning an unequal (in-range)
\* value sets the flag of that attribute and leaves the other two.
C5_SettersDirtyOnlyOnChange ==
    /\ last.op = "set_color" =>
          IF last.c = pre.color
          THEN DirtyFlags(s) = DirtyFlags(pre)
          ELSE DirtyFlags(s) =
                  <<TRUE, pre.annotation_changed, pre.value_changed>>
    /\ last.op = "set_annotation" =>
          IF last.a = pre.annotation
          THEN DirtyFlags(s) = DirtyFlags(pre)
          ELSE DirtyFlags(s) =
                  <<pre.color_changed, TRUE, pre.value_changed>>
    /\ last.op = "set_value" /\ InRange(last.val) =>
          IF last.val = pre.value
          THEN DirtyFlags(s) = DirtyFlags(pre)
          ELSE DirtyFlags(s) =
                  <<pre.color_changed, pre.annotation_changed, TRUE>>

\* The same color assigned a second time, after it was changed.
C5_Witness ==
    /\ last.op = "set_color"
    /\ last.c = pre.color
    /\ pre.color # "Color()"
    /\ s.color_changed

\* The positions of fired that hold a call of the callback name.
CallsOf(name) == {i \in DOMAIN fired : fired[i][1] = name}

\* The callback name was invoked as often as fires says (once or never),
\* with the argument arg.
FiredAsDue(name, fires, arg) ==
    /\ Cardinality(CallsOf(name)) = IF fires THEN 1 ELSE 0
    /\ \A i \in CallsOf(name) : fired[i][2] = arg

\* C6: a thorough doTick fires the three change callbacks whatever the dirty
\* flags are, any other doTick fires a callback exactly when its dirty flag
\* is set; each callback receives the current attribute, and tick is invoked
\* once, after the callbacks.
C6_TickFiresCallbacks ==
    last.op = "doTick" =>
        /\ FiredAsDue("onColorChange",
                      last.thorough \/ pre.color_changed, pre.color)
        /\ FiredAsDue("onAnnotationChange",
                      last.thorough \/ pre.annotation_changed, pre.annotation)
        /\ FiredAsDue("onValueChange",
                      last.thorough \/ pre.value_changed, pre.value)
        /\ CallsOf("tick") = {Len(fired)}

\* A doTick that is not thorough and fires the three callbacks of a surface
\* whose three attributes were assigned.
C6_Witness ==
    /\ last.op = "doTick"
    /\ ~last.thorough
    /\ Len(fired) = 4
    /\ pre.color = "red"
    /\ pre.annotation = "Volume"
    /\ pre.value = MaxData2

\* C7: doTick clears needs_update and got_update exactly when got_update is
\* set, and leaves both alone otherwise; a pending needs_update is kept by
\* every operation but that clearing doTick, and a match withdraws the
\* acknowledgment a color assignment gave.
C7_TickClearsOnlyAcknowledged ==
    /\ last.op = "doTick" =>
          IF pre.got_update
          THEN ~s.needs_update /\ ~s.got_update
          ELSE s.needs_update = pre.needs_update /\ s.got_update = pre.got_update
    /\ pre.needs_update /\ ~(last.op = "doTick" /\ pre.got_update) => s.needs_update
    /\ last.op = "match" /\ last.ret.some => s.needs_update /\ ~s.got_update

\* A doTick that clears the update a match raised and a color assignment
\* acknowledged.
C7_Witness ==
    /\ last.op = "doTick"
    /\ pre.needs_update
    /\ pre.got_update
    /\ ~s.needs_update
    /\ ~s.got_update

\* C8: a matched press is a double press exactly when the time since the
\* previous matched press is at most double_press_time; a matched event that
\* is no press is never a double press and leaves the last-press time.
C8_DoublePressWindow ==
    last.op = "match" /\ last.ret.some =>
        IF isPressOf(pre.kind, last.ret.value)
        THEN /\ last.prev # -1 =>
                  /\ pre.press = last.prev
                  /\ last.ret.double_press <=> (last.t - last.prev <= double_press_time)
             /\ s.press = last.t
        ELSE /\ ~last.ret.double_press
             /\ s.press = pre.press

\* Presses at 0.0 and 0.2: the second is a double press.
C8_Witness ==
    /\ last.op = "match"
    /\ last.prev = 0
    /\ last.t = 2
    /\ last.ret.some
    /\ last.ret.double_press

\* C16: after a successful match the surface has needs_update set,
\* got_update clear, value_changed set, the value the strategy gives for the
\* event and the old value, and the match time as last-tweak time; the event
\* returned carries the new value and the channel of the event.
C16_MatchUpdatesSurface ==
    last.op = "match" /\ last.ret.some =>
        /\ s.needs_update
        /\ ~s.got_update
        /\ s.value_changed
        /\ s.value = getValueFromEvent(last.event, pre.value)
        /\ s.tweak = last.t
        /\ last.ret.value = s.value
        /\ last.ret.channel = last.event.status % 16

\* A match on channel 5 that changes the value of an acknowledged surface.
C16_Witness ==
    /\ last.op = "match"
    /\ last.ret.some
    /\ last.ret.channel = 5
    /\ pre.got_update
    /\ pre.value = MaxData2
    /\ s.value = 0
    /\ last.t > pre.tweak

\* C19 as claimed: an annotation assignment acknowledges a pending update,
\* so the doTick that follows it clears needs_update and got_update.
C19_AnnotationAcknowledges ==
    last.op = "doTick" /\ last.after = "set_annotation" /\ pre.needs_update =>
        ~s.needs_update /\ ~s.got_update

\* C19, amended: an annotation assignment leaves needs_update and got_update
\* as they were, and the doTick that follows it clears a pending
\* needs_update only if a color assignment had set got_update.
C19_AnnotationDoesNotAcknowledge ==
    /\ last.op = "set_annotation" =>
          /\ s.needs_update = pre.needs_update
          /\ s.got_update = pre.got_update
    /\ last.op = "doTick" /\ last.after = "set_annotation" /\ pre.needs_update =>
          s.needs_update = ~pre.got_update

\* A doTick after an annotation assignment, with the update still pending.
C19_Witness ==
    /\ last.op = "doTick"
    /\ last.after = "set_annotation"
    /\ pre.annotation = "Volume"
    /\ pre.needs_update
    /\ ~pre.got_update
    /\ s.needs_update

\* C20: a doTick that clears needs_update and got_update does so with the
\* three dirty flags clear.
C20_ClearsOnlyWhenClean ==
    last.op = "doTick" /\ pre.got_update =>
        ~s.color_changed /\ ~s.annotation_changed /\ ~s.value_changed

ValueChange ==
    \/ last.op = "match" /\ last.ret.some
    \/ last.op = "set_value" /\ ~last.error /\ last.val # pre.value

C22_FirstPressNotDouble ==
    last.op = "match" /\ last.ret.some /\ last.ret.double_press =>
        last.prev # -1

\* C23: a fresh surface has value 0.0, needs_update and got_update clear and
\* the three dirty flags set, and a doTick of a surface nothing was assigned
\* to fires onColorChange, onAnnotationChange and onValueChange, then tick,
\* even when it is not thorough.
C23_FreshSurfaceFiresAll ==
    /\ last.op = "init" =>
          /\ s.value = 0
          /\ ~s.needs_update
          /\ ~s.got_update
          /\ DirtyFlags(s) = <<TRUE, TRUE, TRUE>>
    /\ (/\ last.op = "doTick"
        /\ pre.color = "Color()" /\ pre.annotation = "" /\ pre.value = 0
        /\ pre.tweak = 0 /\ ~pre.needs_update /\ ~pre.got_update) =>
          fired = <<Call("onColorChange", "Color()"),
                    Call("onAnnotationChange", ""),
                    Call("onValueChange", 0),
                    Call("tick", "")>>

\* The first doTick of a fresh surface, not thorough.
C23_Witness ==
    /\ last.op = "doTick"
    /\ ~last.thorough
    /\ ~last.after_tick
    /\ clock = 0
    /\ prevPress = -1
    /\ pre.color = "Color()" /\ pre.annotation = "" /\ pre.value = 0
    /\ ~pre.needs_update /\ ~pre.got_update
    /\ Len(fired) = 4

(***************************************************************************)
(* The matcher's driver.  The clock of this specification is the latest    *)
(* tweak time of the pool.                                                 *)
(***************************************************************************)
\* Status bytes fed to a matcher: note off ch 0 (0x80), note on ch 5 (0x95),
\* after-touch ch 5 (0xA5), control change ch 0 (0xB0).
PoolStatusBytes == {128, 149, 165, 176}

\* A system-exclusive message: not a standard event.
SysexEvent == EventData(FALSE, 240, 0, 0)

PoolEvents ==
    {EventData(TRUE, st, d1, d2) :
        st \in PoolStatusBytes, d1 \in Notes, d2 \in {0, MaxData2}}
    \cup {SysexEvent}

RECURSIVE MaxOf(_)
MaxOf(S) ==
    IF S = {} THEN 0
    ELSE LET x == CHOOSE y \in S : TRUE
             r == MaxOf(S \ {x})
         IN IF x > r THEN x ELSE r

poolClock == MaxOf({m.pool[i].tweak : i \in Notes})

\* m.matchEvent(event) with time() reading t.
MatchEvent(event, t) ==
    LET r == matchEvent(m, event, t)
    IN /\ m' = r.self
       /\ mpre' = m
       /\ mlast' = [NoMatcherOp EXCEPT !.op = "matchEvent", !.event = event,
                                       !.t = t, !.ret = r.ret, !.called = r.called]
       /\ UNCHANGED <<surfvars, ctxvars, chanvars>>

\* m.tick(thorough)
MatcherTick(thorough) ==
    LET r == matcher_tick(m, thorough)
    IN /\ m' = r.self
       /\ mpre' = m
       /\ mlast' = [NoMatcherOp EXCEPT !.op = "tick", !.thorough = thorough,
                                       !.ticked = r.ticked]
       /\ UNCHANGED <<surfvars, ctxvars, chanvars>>

InitMatcher ==
    /\ InitSurface({"base"})
    /\ InitPool({NoteMatcher, NoteAfterTouchMatcher})
    /\ InitContext
    /\ InitChannel

NextMatcher ==
    \/ \E event \in PoolEvents, t \in PoolTimes :
          /\ t >= poolClock
          /\ matchEvent(m, event, t).ret.some \/ t = poolClock
          /\ MatchEvent(event, t)
    \/ \E thorough \in BOOLEAN : MatcherTick(thorough)

SpecMatcher == InitMatcher /\ [][NextMatcher]_vars


(***************************************************************************)
(* Properties of the matchers, checked under SpecMatcher.                  *)
(***************************************************************************)
\* The status high nibbles the coarse pattern of a matcher class accepts.
CoarseNibbles(class) == IF class = "NoteMatcher" THEN {8, 9} ELSE {10}

PassesCoarse(class, event) ==
    event.standard /\ (event.status \div 16) \in CoarseNibbles(class)

\* C9: on a standard event with status high nibble 8 or 9 and data1 = n,
\* NoteMatcher.matchEvent calls match on pool[n] alone, changes no other
\* surface, and returns what pool[n].match returned.
C9_NoteDispatchByData1 ==
    /\ mlast.op = "matchEvent"
    /\ mpre.class = "NoteMatcher"
    /\ PassesCoarse("NoteMatcher", mlast.event)
    => LET n == mlast.event.data1
           r == match(mpre.pool[n], mlast.event, mlast.t)
       IN /\ mlast.called = {n}
          /\ \A i \in Notes \ {n} : m.pool[i] = mpre.pool[i]
          /\ m.pool[n] = r.self
          /\ mlast.ret = r.ret

\* A note-on for the last note of the pool, after note 0 was played.
C9_Witness ==
    /\ mlast.op = "matchEvent"
    /\ mpre.class = "NoteMatcher"
    /\ mlast.event.status = 149
    /\ mlast.event.data1 = NumNotes - 1
    /\ mlast.ret.some
    /\ mlast.ret.control = NumNotes - 1
    /\ mpre.pool[0].needs_update
    /\ ~mpre.pool[NumNotes - 1].needs_update

\* C10: an event that is not standard, or whose status high nibble the
\* coarse pattern rejects, makes matchEvent return no match without calling
\* match on any surface of the pool, whose state is unchanged.
C10_CoarseFilterShortCircuits ==
    /\ mlast.op = "matchEvent"
    /\ ~PassesCoarse(mpre.class, mlast.event)
    => /\ ~mlast.ret.some
       /\ mlast.called = {}
       /\ m = mpre

\* A note-on handed to the after-touch matcher that holds a touched note.
C10_Witness ==
    /\ mlast.op = "matchEvent"
    /\ mpre.class = "NoteAfterTouchMatcher"
    /\ mlast.event.status = 149
    /\ mpre.pool[mlast.event.data1].needs_update

\* The pool indices in pool order.
PoolOrder == [i \in 1 .. NumNotes |-> i - 1]

\* C11: one tick(thorough) of a matcher calls doTick(thorough) once on every
\* surface of its pool, in pool order.
C11_TickReachesEverySurface ==
    mlast.op = "tick" => mlast.ticked = PoolOrder

(***************************************************************************)
(* The context's driver: the module is imported, then the host calls the   *)
(* wrapped driver functions one at a time; a call runs steps at any depth, *)
(* may reset the context or fail with another exception, and ends in the   *)
(* wrapper of catchContextResetException.                                  *)
(***************************************************************************)
\* Deepest call stack below the wrapper.
MaxDepth == 3
\* Most DeviceContextManager instances constructed.
MaxContexts == 3
\* Most steps of one wrapped call.
MaxSteps == 2

\* Events a step hands to processEvent: a note-on, an after-touch, a
\* control change.
ContextEvents ==
    {EventData(TRUE, st, 0, MaxData2) : st \in {149, 165, 176}}

ContextOp(op) == [NoContextOp EXCEPT !.op = op, !.before = context]

\* Module import: _initContext()
LoadModule ==
    /\ pc = "loading"
    /\ LET r == initContext(context, made)
       IN /\ context' = r.context
          /\ made' = r.made
    /\ pc' = "idle"
    /\ clast' = ContextOp("_initContext")
    /\ UNCHANGED <<depth, exc, call, seen, surfvars, poolvars, chanvars>>

\* getContext(), by the host or by the running call.
GetContext ==
    /\ pc \in {"idle", "running"}
    /\ LET r == getContext(context)
       IN /\ clast' = [ContextOp("getContext") EXCEPT
                          !.ret = r.ret, !.error = r.error, !.seen = seen]
          /\ seen' = IF r.error THEN seen ELSE r.ret.instance
    /\ UNCHANGED <<context, made, pc, depth, exc, call, surfvars, poolvars, chanvars>>

\* The host calls a wrapped driver function.
CallDriver ==
    /\ pc = "idle"
    /\ pc' = "running"
    /\ depth' = 1
    /\ call' = [Call0 EXCEPT !.start = context, !.outcome = "running"]
    /\ clast' = ContextOp("call")
    /\ UNCHANGED <<context, made, exc, seen, surfvars, poolvars, chanvars>>

\* The running call calls a function.
Descend ==
    /\ pc = "running"
    /\ depth < MaxDepth
    /\ depth' = depth + 1
    /\ clast' = ContextOp("descend")
    /\ UNCHANGED <<context, made, pc, exc, call, seen, surfvars, poolvars, chanvars>>

\* A step of the running call: getContext().processEvent(event)
Step(event) ==
    /\ pc = "running"
    /\ call.steps < MaxSteps
    /\ LET r == processEvent(getContext(context).ret, event)
       IN /\ context' = r.self
          /\ clast' = [ContextOp("processEvent") EXCEPT
                          !.event = event, !.tried = r.tried]
    /\ call' = [call EXCEPT !.steps = @ + 1,
                            !.stepsAfter = IF call.reset THEN @ + 1 ELSE @]
    /\ UNCHANGED <<made, pc, depth, exc, seen, surfvars, poolvars, chanvars>>

\* The running call calls resetContext(reason).
ResetContext ==
    /\ pc = "running"
    /\ made < MaxContexts
    /\ LET r == resetContext(context, made)
       IN /\ context' = r.context
          /\ made' = r.made
          /\ exc' = r.raised
          /\ pc' = IF r.raised = "none" THEN "running" ELSE "raising"
          /\ clast' = [ContextOp("resetContext") EXCEPT !.raised = r.raised]
    /\ call' = [call EXCEPT !.reset = TRUE, !.resetDepth = depth]
    /\ seen' = 0
    /\ UNCHANGED <<depth, surfvars, poolvars, chanvars>>

\* The running call fails with an exception that is no reset.
RaiseOther ==
    /\ pc = "running"
    /\ exc' = "Exception"
    /\ pc' = "raising"
    /\ clast' = [ContextOp("raise") EXCEPT !.raised = "Exception"]
    /\ UNCHANGED <<context, made, depth, call, seen, surfvars, poolvars, chanvars>>

\* The exception in flight leaves a frame below the wrapped function.
Unwind ==
    /\ pc = "raising"
    /\ depth > 1
    /\ depth' = depth - 1
    /\ clast' = [ContextOp("unwind") EXCEPT !.raised = exc]
    /\ UNCHANGED <<context, made, pc, exc, call, seen, surfvars, poolvars, chanvars>>

\* A function below the wrapped function returns.
Return ==
    /\ pc = "running"
    /\ depth > 1
    /\ depth' = depth - 1
    /\ clast' = ContextOp("return")
    /\ UNCHANGED <<context, made, pc, exc, call, seen, surfvars, poolvars, chanvars>>

\* The wrapped function ends, by returning or by the exception in flight,
\* and the wrapper returns to the host or lets the exception through.
WrapperExit ==
    /\ pc \in {"running", "raising"}
    /\ depth = 1
    /\ LET r == catchContextResetException(exc)
       IN call' = [call EXCEPT
                      !.outcome = IF r.returned THEN "returned" ELSE "raised",
                      !.propagated = r.raised]
    /\ depth' = 0
    /\ pc' = "idle"
    /\ exc' = "none"
    /\ clast' = [ContextOp("wrapper") EXCEPT !.raised = exc]
    /\ UNCHANGED <<context, made, seen, surfvars, poolvars, chanvars>>

InitDriver ==
    InitSurface({"base"}) /\ InitPool({NoteMatcher}) /\ InitContext /\ InitChannel

NextContext ==
    \/ LoadModule
    \/ GetContext
    \/ CallDriver
    \/ Descend
    \/ \E event \in ContextEvents : Step(event)
    \/ ResetContext
    \/ RaiseOther
    \/ Unwind
    \/ Return
    \/ WrapperExit

SpecContext == InitDriver /\ [][NextContext]_vars

(***************************************************************************)
(* Properties of the context, checked under SpecContext.                   *)
(***************************************************************************)
\* C12: once a wrapped call has reset the context, no further step of that
\* call runs, the wrapper returns to the host without raising, and
\* getContext() then returns a newly constructed context, not the one the
\* call began with.
C12_ResetAbandonsCall ==
    call.reset =>
        /\ call.stepsAfter = 0
        /\ pc # "running"
        /\ pc = "idle" => call.outcome = "returned" /\ call.propagated = "none"
        /\ context.instance > call.start.instance
        /\ clast.op = "getContext" =>
              /\ ~clast.error
              /\ clast.ret = context
              /\ clast.ret # call.start

\* getContext() after a call that ran a step and then reset the context
\* below the wrapped function.
C12_Witness ==
    /\ pc = "idle"
    /\ call.reset
    /\ call.resetDepth >= 2
    /\ call.steps > 0
    /\ call.outcome = "returned"
    /\ clast.op = "getContext"
    /\ clast.ret.instance = call.start.instance + 1

\* C13: resetContext replaces the global context by a new
\* DeviceContextManager with a new Settings, then raises
\* ContextResetException; it never returns, and when the exception is raised
\* getContext() already gives the new context.
C13_ResetReplacesThenRaises ==
    clast.op = "resetContext" =>
        /\ clast.raised = "ContextResetException"
        /\ exc = "ContextResetException"
        /\ pc = "raising"
        /\ context.instance > clast.before.instance
        /\ context.settings > clast.before.settings
        /\ context.instance = made
        /\ getContext(context).ret = context

\* The second reset, raised below the wrapped function.
C13_Witness ==
    /\ clast.op = "resetContext"
    /\ clast.before.instance = 2
    /\ context.instance = 3
    /\ depth >= 2

\* C14: once the module is imported the global context is never unset and
\* getContext() never fails; two getContext() with no reset between them give
\* the same instance; only resetContext (and the import) changes the
\* instance.
C14_OneLiveContext ==
    /\ pc # "loading" => context # NoContext /\ ~getContext(context).error
    /\ clast.op = "getContext" =>
          /\ ~clast.error
          /\ clast.ret = context
          /\ clast.seen # 0 => clast.ret.instance = clast.seen
    /\ context # clast.before => clast.op \in {"resetContext", "_initContext"}

\* A second getContext() in a row, after a reset.
C14_Witness ==
    /\ clast.op = "getContext"
    /\ clast.seen = 2
    /\ clast.ret.instance = 2

\* C15: the wrapper swallows a ContextResetException and returns; any other
\* exception leaves the wrapper as it was raised; the wrapper does not
\* replace the context.
C15_WrapperAbsorbsOnlyReset ==
    clast.op = "wrapper" =>
        /\ clast.raised = "ContextResetException" =>
              call.outcome = "returned" /\ call.propagated = "none"
        /\ clast.raised = "Exception" =>
              call.outcome = "raised" /\ call.propagated = "Exception"
        /\ context = clast.before

\* Another exception, raised below the wrapped function, leaves the wrapper.
C15_Witness ==
    /\ clast.op = "wrapper"
    /\ clast.raised = "Exception"
    /\ call.outcome = "raised"
    /\ call.steps > 0
    /\ ~call.reset

(***************************************************************************)
(* The value strategy's channel extraction on its own: every status byte,  *)
(* with the data bytes varying.                                            *)
(***************************************************************************)
ChannelEvents ==
    {EventData(TRUE, st, d1, d2) :
        st \in 0 .. 255, d1 \in {0, NumNotes - 1}, d2 \in {0, MaxData2}}

\* strategy.getChannelFromEvent(event)
Extract(event) ==
    /\ cin' = event
    /\ cout' = getChannelFromEvent(event)
    /\ UNCHANGED <<surfvars, poolvars, ctxvars>>

InitExtract ==
    InitSurface({"base"}) /\ InitPool({NoteMatcher}) /\ InitContext /\ InitChannel

NextChannel == \E event \in ChannelEvents : Extract(event)

SpecChannel == InitExtract /\ [][NextChannel]_vars

\* C17: the channel extracted from an event is the low nibble of its status
\* byte: it lies in 0..15, the status byte is its high nibble times 16 plus
\* the channel (so the data bytes play no part), 0x9F gives 0xF and 0x95
\* gives 0x5.
C17_ChannelIsLowNibble ==
    cin.standard =>
        /\ cout \in 0 .. 15
        /\ cin.status = 16 * (cin.status \div 16) + cout
        /\ (cin.status = 159 => cout = 15)
        /\ (cin.status = 149 => cout = 5)

\* The channel of a 0x95 event with non-zero data bytes.
C17_Witness ==
    /\ cin.standard
    /\ cin.status = 149
    /\ cin.data1 = NumNotes - 1
    /\ cin.data2 = MaxData2
    /\ cout = 5

\* The matchers a device registers with its context, in registration order.
registered == <<NoteMatcher, NoteAfterTouchMatcher>>

\* The matchers a dispatch in registration order tries: every one up to and
\* including the first whose matchEvent returns an event.
ExpectedTried(event) ==
    LET hits == {i \in 1 .. Len(registered) :
                    matchEvent(registered[i], event, 0).ret.some}
        stop == IF hits = {} THEN Len(registered)
                ELSE CHOOSE i \in hits : \A j \in hits : i <= j
    IN [i \in 1 .. stop |-> i]

\* C18: processEvent tries the registered matchers in registration order
\* and stops at the first whose matchEvent returns an event.
C18_DispatchStopsAtFirstHit ==
    clast.op = "processEvent" => clast.tried = ExpectedTried(clast.event)

====
